---- MODULE Spec2Model ----
(***************************************************************************)
(* The usage ledger and rate limiter of src/src/core/credit_manager.py     *)
(* (class CreditManager) as a state machine.  Threads call                 *)
(* track_request_start, track_usage and get_usage_stats on the one shared  *)
(* instance.  Time is the integer number of seconds read by time.time().   *)
(*                                                                         *)
(* A handler is cut into steps at the points where a thread can block or   *)
(* be overtaken: the acquisition of _usage_lock, the two time.sleep calls  *)
(* of check_rate_limit, the gap between the check and the append of        *)
(* track_request_start, and the gap between the load and the store of the  *)
(* "+=" statements of track_usage.                                         *)
(*                                                                         *)
(* Init is the ledger after one CreditManager() call.  The first-use       *)
(* specification starts before any such call and cuts __new__ and __init__ *)
(* at the acquisition of the class lock, between the two assignments made  *)
(* under it, and between the test of _initialized and the body.            *)
(***************************************************************************)
EXTENDS Integers, Sequences, FiniteSets, Bags, TLC

VARIABLES
    clock,               \* time.time(), in whole seconds
    total_requests,      \* self.total_requests
    total_tokens,        \* self.total_tokens
    total_input_tokens,  \* self.total_input_tokens
    total_output_tokens, \* self.total_output_tokens
    call_times,          \* self.call_times: list of timestamps
    token_times,         \* self.token_times: list of <<timestamp, tokens>>
    heap,                \* the dict objects allocated so far, by address
    component_usage,     \* self.component_usage: the address of a dict in heap
    usage_lock,          \* self._usage_lock (RLock): owner thread and depth
    persistence_file,    \* the documents held by data/logs/api_usage.json
    pc,                  \* per thread: where it stands in its current call
    regs,                \* per thread: the values loaded by its "+=" statements
    now,                 \* per thread: the local "now" of check_rate_limit
    wake_at,             \* per thread: when its time.sleep may return
    iter,                \* per thread: iterations made of the caller's loop
    instance,            \* CreditManager._instance: 0 (None) or an object
    class_lock,          \* CreditManager._lock: the thread that owns it, or 0
    initialized,         \* the instance's _initialized attribute
    self_ref,            \* per thread: the object its CreditManager() call holds
    created,             \* the objects made by super().__new__ so far
    ret,                 \* per thread: the dict its last get_usage_stats returned
    seen_breakdown,      \* history: the breakdown's content when ret was returned
    log,                 \* history: bag of the track_usage calls completed
    admits,              \* history: number of track_request_start calls returned
    entered,             \* history, per thread: the state at its call of admit
    save_calls,          \* history: number of _save_usage calls made
    writes,              \* history: number of them that wrote their document,
                         \* counted up to MaxWritesCounted
    stats_calls,         \* history: number of get_usage_stats calls by callers
    ticks,               \* history: number of clock steps taken
    init_runs,           \* history: number of runs of the body of __init__
    ads,                 \* AdVectorStoreLite.ads: the dict, in insertion order
    ads_file,            \* the content of ads.json
    found,               \* the last find_similar_ads call: arguments and outcome
    stored,              \* history: the ads as store_ad wrote them
    store_calls,         \* history: number of store_ad calls made
    read_calls,          \* history: number of read calls made on the store
    agent_pc,            \* where _generate_llm_insights stands
    response,            \* what generate_content gave to this execution
    agent_mark,          \* the ledger calls returned when the agent last moved
    agent_calls,         \* history: the ledger calls this execution has made
    agent_runs,          \* history: executions of _generate_llm_insights begun
    campaign,            \* the values the last bid calculation was given
    adjustment,          \* what _calculate_single_adjustment made of them
    slack_webhook,       \* AlertManager.slack_webhook, "unset" before __init__
    alerts_sent,         \* AlertManager.alerts_sent: list of alert keys
    posts,               \* history: bag of the keys posted to Slack
    issued               \* history: budget values handed to check_metrics

ledger == <<total_requests, total_tokens, total_input_tokens,
            total_output_tokens, call_times, token_times, heap,
            component_usage>>
threadv == <<pc, regs, now, wake_at, ret, seen_breakdown>>
caller == <<iter>>
singleton == <<instance, class_lock, initialized, self_ref, created, init_runs>>
history == <<log, admits, entered, save_calls, writes, stats_calls, ticks>>
adstore == <<ads, ads_file, found, stored, store_calls, read_calls>>
agent == <<agent_pc, response, agent_mark, agent_calls, agent_runs>>
bidding == <<campaign, adjustment>>
alerting == <<slack_webhook, alerts_sent, posts, issued>>
vars == <<clock, ledger, usage_lock, persistence_file, threadv, caller,
          history, singleton, adstore, agent, bidding, alerting>>

----------------------------------------------------------------------------
(* Bounds of the model. *)

NumThreads == 2
MaxRecords == 3
MaxStats == 1
MaxAdmits == 16
MaxTicks == 3
MaxBigRecords == 1
MaxFewAdmits == 2
MaxFewTicks == 2
MaxPerThread == 6
MaxFirstRecords == 2
MaxWritesCounted == 2
MaxEarly == 2
MaxCallAdmits == 2
MaxCallRecords == 2
MaxStores == 2
MaxReads == 2
MaxReportRecords == 1
MaxReportTicks == 1
MaxRuns == 2

(* Program constants. *)

rpm_limit == 15
tpm_limit == 1000000
WindowSeconds == 60
SaveEvery == 10
\* 0.075 and 0.30 dollars per million tokens, in thousandths of a dollar; a
\* cost is kept as its exact numerator over 10^9 (nano-dollars).
cost_per_million_input == 75
cost_per_million_output == 300

Threads == 1..NumThreads

Registry == {"collector", "insight_agent", "optimizer", "analyzer", "dspy"}

ZeroUsage == [calls |-> 0, tokens |-> 0, errors |-> 0]

InitialComponentUsage == [c \in Registry |-> ZeroUsage]

NoRegs == [total_requests |-> 0, total_tokens |-> 0, total_input_tokens |-> 0,
           total_output_tokens |-> 0, usage |-> <<>>]

NoResult == [total_requests |-> -1]

NoEntry == [at |-> -1, oldest |-> -1, newest |-> -1]

----------------------------------------------------------------------------
(* The re-entrant lock. *)

\* Variant: a lock that its own holder cannot take again (threading.Lock).
CanAcquireExclusive(l, t) == l.owner = 0

\* Variant: a lock that never makes a thread wait.
CanAcquireAlways(l, t) == TRUE

CanAcquire(l, t) == l.owner \in {0, t}

Acquired(l, t) == [owner |-> t, depth |-> l.depth + 1]

Released(l) ==
    IF l.depth <= 1 THEN [owner |-> 0, depth |-> 0]
    ELSE [owner |-> l.owner, depth |-> l.depth - 1]

\* The lock after "with self._usage_lock:" of get_usage_stats has been
\* entered and left by thread t inside _save_usage.
Reentered(l, t) == Released(Acquired(l, t))

\* The end of thread t's "with self._usage_lock:" releases the lock object it
\* acquired; l is the object self._usage_lock names now, which is another one
\* when __init__ has run meanwhile.
ReleasedBy(l, t) == IF l.owner = t THEN Released(l) ELSE l

----------------------------------------------------------------------------
(* The sliding windows. *)

\* Variant: the comparison of the filter turned round.
PruneInverted(times, t) == SelectSeq(times, LAMBDA x : t - x > WindowSeconds)

\* Variant: an event exactly 60 s old is kept.
PruneInclusive(times, t) == SelectSeq(times, LAMBDA x : t - x <= WindowSeconds)

Prune(times, t) == SelectSeq(times, LAMBDA x : t - x < WindowSeconds)

PruneTokens(events, t) == SelectSeq(events, LAMBDA e : t - e[1] < WindowSeconds)

RECURSIVE SumTokens(_)
SumTokens(events) ==
    IF events = <<>> THEN 0 ELSE Head(events)[2] + SumTokens(Tail(events))

RECURSIVE MinTime(_)
MinTime(events) ==
    IF Len(events) = 1 THEN Head(events)[1]
    ELSE LET m == MinTime(Tail(events))
         IN  IF Head(events)[1] < m THEN Head(events)[1] ELSE m

\* Variant: the comparison with the limit off by one.
RpmReachedAbove(times) == Len(times) > rpm_limit

RpmReached(times) == Len(times) >= rpm_limit

\* Variant: the whole limit taken for the threshold.
TpmReachedAtLimit(recent_tokens) == recent_tokens >= tpm_limit

TpmReached(recent_tokens) == recent_tokens * 10 >= tpm_limit * 9

\* Variant: the event of an admission entered twice.
AdmittedTwice(times, t) == Append(Append(times, t), t)

\* Variant: the event of an admission put at the front.
AdmittedAtFront(times, t) == <<t>> \o times

\* self.call_times.append(time.time())
Admitted(times, t) == Append(times, t)

\* Variant: the last element taken for the oldest call.
OldestCallLast(times) == times[Len(times)]

\* oldest_call = self.call_times[0]
OldestCall(times) == times[1]

\* Variant: the wait without its one-second margin.
WaitTimeNoMargin(t, oldest) == WindowSeconds - (t - oldest)

\* Variant: the age of the oldest event added instead of subtracted.
WaitTimeSignSlip(t, oldest) == WindowSeconds + (t - oldest) + 1

WaitTime(t, oldest) == WindowSeconds - (t - oldest) + 1

----------------------------------------------------------------------------
(* Accounting: what the statements of track_usage compute. *)

Tokens(a) == a.input_tokens + a.output_tokens

\* Variant: total_tokens counts the input tokens only.
CountedTotalsInputOnly(r, a) ==
    IF a.success
    THEN [total_requests      |-> r.total_requests + 1,
          total_tokens        |-> r.total_tokens + a.input_tokens,
          total_input_tokens  |-> r.total_input_tokens + a.input_tokens,
          total_output_tokens |-> r.total_output_tokens + a.output_tokens]
    ELSE [total_requests      |-> total_requests,
          total_tokens        |-> total_tokens,
          total_input_tokens  |-> total_input_tokens,
          total_output_tokens |-> total_output_tokens]

\* Variant: the totals are counted whatever the outcome of the call.
CountedTotalsAnyOutcome(r, a) ==
    [total_requests      |-> r.total_requests + 1,
     total_tokens        |-> r.total_tokens + Tokens(a),
     total_input_tokens  |-> r.total_input_tokens + a.input_tokens,
     total_output_tokens |-> r.total_output_tokens + a.output_tokens]

CountedTotals(r, a) ==
    IF a.success
    THEN [total_requests      |-> r.total_requests + 1,
          total_tokens        |-> r.total_tokens + Tokens(a),
          total_input_tokens  |-> r.total_input_tokens + a.input_tokens,
          total_output_tokens |-> r.total_output_tokens + a.output_tokens]
    ELSE [total_requests      |-> total_requests,
          total_tokens        |-> total_tokens,
          total_input_tokens  |-> total_input_tokens,
          total_output_tokens |-> total_output_tokens]

\* Variant: a failed call is counted as a call of its component.
CountedUsageErrorAsCall(usage, r, a) ==
    IF a.component \in DOMAIN usage
    THEN IF a.success
         THEN [usage EXCEPT
                 ![a.component].calls = r.usage[a.component].calls + 1,
                 ![a.component].tokens = r.usage[a.component].tokens + Tokens(a)]
         ELSE [usage EXCEPT
                 ![a.component].calls = r.usage[a.component].calls + 1]
    ELSE usage

\* Variant: an entry is created for a component that has none.
CountedUsageCreating(usage, r, a) ==
    LET known == IF a.component \in DOMAIN usage THEN usage[a.component]
                 ELSE ZeroUsage
    IN  [c \in DOMAIN usage \cup {a.component} |->
           IF c # a.component THEN usage[c]
           ELSE IF a.success
                THEN [known EXCEPT !.calls = @ + 1, !.tokens = @ + Tokens(a)]
                ELSE [known EXCEPT !.errors = @ + 1]]

CountedUsage(usage, r, a) ==
    IF a.component \in DOMAIN usage
    THEN IF a.success
         THEN [usage EXCEPT
                 ![a.component].calls = r.usage[a.component].calls + 1,
                 ![a.component].tokens = r.usage[a.component].tokens + Tokens(a)]
         ELSE [usage EXCEPT
                 ![a.component].errors = r.usage[a.component].errors + 1]
    ELSE usage

CountedTokenTimes(events, a, t) ==
    IF a.success THEN Append(events, <<t, Tokens(a)>>) ELSE events

\* Variant: no save while nothing has been counted yet.
ShouldSaveAfterFirst(total) == total > 0 /\ total % SaveEvery = 0

ShouldSave(total) == total % SaveEvery = 0

----------------------------------------------------------------------------
(* Reporting and persistence. *)

\* Variant: the two rates exchanged.
EstimatedCostSwapped(tin, tout) ==
    tin * cost_per_million_output + tout * cost_per_million_input

EstimatedCost(tin, tout) ==
    tin * cost_per_million_input + tout * cost_per_million_output

\* Variant: the length of the stored list.
CurrentRpmStored(times, t) == Len(times)

CurrentRpm(times, t) == Len(SelectSeq(times, LAMBDA x : t - x < WindowSeconds))

\* The dict built by get_usage_stats: 'component_breakdown' is the dict object
\* self.component_usage itself, so the result holds its address.
GetUsageStats(tr, tt, tin, tout, cu, times, t) ==
    [total_requests      |-> tr,
     total_tokens        |-> tt,
     estimated_cost      |-> EstimatedCost(tin, tout),
     component_breakdown |-> cu,
     current_rpm         |-> CurrentRpm(times, t)]

\* Variant: the breakdown written as it was at construction.
SerializedWithoutCounts(stats, h, t) ==
    [timestamp |-> t,
     stats     |-> [stats EXCEPT !.component_breakdown = InitialComponentUsage]]

\* json.dump writes the content the breakdown has at that moment.
Serialized(stats, h, t) ==
    [timestamp |-> t,
     stats     |-> [stats EXCEPT !.component_breakdown = h[@]]]

IoOutcomes == {"ok", "open_failed", "dump_failed"}

\* Variant: the file opened in append mode.
WrittenAppending(file, doc, io) ==
    CASE io = "ok"          -> Append(file, doc)
      [] io = "open_failed" -> file
      [] io = "dump_failed" -> file

\* open(..., 'w') truncates; a failure of json.dump leaves no whole document.
Written(file, doc, io) ==
    CASE io = "ok"          -> <<doc>>
      [] io = "open_failed" -> file
      [] io = "dump_failed" -> <<>>

\* Variant: the exception of a failed write leaves _save_usage and
\* track_usage.
AfterSavePropagating(io) == IF io = "ok" THEN "idle" ELSE "raised"

\* Where track_usage stands after _save_usage: "except Exception" logs a
\* warning and the call returns.
AfterSave(io) == "idle"

----------------------------------------------------------------------------
(* The ad store of src/src/storage/vector_store_lite.py (class             *)
(* AdVectorStoreLite).  A str is the sequence of its words, which is what  *)
(* split() makes of it; a dict is a function on its keys, so that a        *)
(* deleted key is a key the function does not have.  ctr and roas are in   *)
(* tenths.                                                                 *)

\* str.lower() on the words the workload uses.
Capitals ==
    [Test |-> "test", Headline |-> "headline", Description |-> "description",
     Learn |-> "learn", More |-> "more", High |-> "high",
     Performing |-> "performing", Ad |-> "ad"]

Lower(w) == IF w \in DOMAIN Capitals THEN Capitals[w] ELSE w

LowerAll(s) == [i \in DOMAIN s |-> Lower(s[i])]

\* The dict store_ad builds, with the fields the read operations use.
Entry(ad) ==
    [ad_id |-> ad.ad_id, platform |-> ad.platform, headline |-> ad.headline,
     description |-> ad.description, cta |-> ad.cta, ctr |-> ad.ctr,
     roas |-> ad.roas,
     text |-> LowerAll(ad.headline \o ad.description \o ad.cta)]

\* self.ads[key] = value: a key already there keeps its place.
Put(d, value) ==
    IF \E i \in DOMAIN d : d[i].ad_id = value.ad_id
    THEN [i \in DOMAIN d |-> IF d[i].ad_id = value.ad_id THEN value ELSE d[i]]
    ELSE Append(d, value)

\* del d[key]
Del(d, key) == [k \in DOMAIN d \ {key} |-> d[k]]

\* list.sort(key=..., reverse=True) on <<key, item>> pairs: descending and
\* stable, items of equal key stay in their order.
RECURSIVE SortDesc(_)
SortDesc(pairs) ==
    IF pairs = <<>> THEN <<>>
    ELSE LET rest == SortDesc(SubSeq(pairs, 1, Len(pairs) - 1))
             x    == pairs[Len(pairs)]
         IN  SelectSeq(rest, LAMBDA p : p[1] >= x[1]) \o <<x>>
                \o SelectSeq(rest, LAMBDA p : p[1] < x[1])

\* s[:n]
Take(s, n) == SubSeq(s, 1, IF n < Len(s) THEN n ELSE Len(s))

WordSet(s) == {s[i] : i \in DOMAIN s}

\* The ads the performance filter of find_similar_ads lets through.
Passes(ad, min_performance) ==
    /\ "min_ctr" \in DOMAIN min_performance => ad.ctr >= min_performance.min_ctr
    /\ "min_roas" \in DOMAIN min_performance => ad.roas >= min_performance.min_roas

\* find_similar_ads on the dict d: KeyError at ad['text'] for an ad that
\* passes the filter and has no such key, the result list otherwise.  A
\* score is the pair <<overlap, len(query_words)>> of its quotient.
FindSimilarAds(d, query, min_performance, limit) ==
    LET query_words == WordSet(LowerAll(query))
        passing == SelectSeq(d, LAMBDA ad : Passes(ad, min_performance))
    IN  IF \E i \in DOMAIN passing : "text" \notin DOMAIN passing[i]
        THEN [outcome |-> "KeyError", results |-> <<>>]
        ELSE LET overlap(ad) == Cardinality(query_words \cap WordSet(ad.text))
                 matching == SelectSeq(passing, LAMBDA ad : overlap(ad) > 0)
                 scores == [i \in DOMAIN matching |->
                              <<overlap(matching[i]), matching[i]>>]
                 top == Take(SortDesc(scores), limit)
             IN  [outcome |-> "ok",
                  results |->
                     [i \in DOMAIN top |->
                        Del(top[i][2], "text") @@
                           ("similarity_score" :>
                               <<top[i][1], Cardinality(query_words)>>)]]

\* The ads get_top_performers returns: those of the platform, if one is
\* given, sorted by roas * ctr, the first limit of them.
TopPerformers(d, platform, limit) ==
    LET chosen == IF platform # "" THEN SelectSeq(d, LAMBDA ad : ad.platform = platform)
                  ELSE d
        keyed == [i \in DOMAIN chosen |-> <<chosen[i].roas * chosen[i].ctr, chosen[i]>>]
    IN  Take(SortDesc(keyed), limit)

\* The store after get_top_performers: the list holds the dicts of the
\* store themselves, so "del ad['text']" takes the key from the stored ad.
AfterTopPerformers(d, platform, limit) ==
    LET top == TopPerformers(d, platform, limit)
        ids == {top[i][2].ad_id : i \in DOMAIN top}
    IN  [i \in DOMAIN d |-> IF d[i].ad_id \in ids THEN Del(d[i], "text") ELSE d[i]]

NoFound ==
    [call |-> 0, query |-> <<>>, min_performance |-> <<>>, limit |-> 0,
     outcome |-> "none", results |-> <<>>]

InitStore ==
    /\ ads = <<>>
    /\ ads_file = <<>>
    /\ found = NoFound
    /\ stored = <<>>
    /\ store_calls = 0
    /\ read_calls = 0

----------------------------------------------------------------------------
(* The caller of src/src/agents/insight_agent.py: one execution of         *)
(* PerformanceInsightAgent._generate_llm_insights.  A response of the      *)
(* model is one of the kinds the method tells apart.                       *)

Responses ==
    {"raises",        \* generate_content or response.text raises
     "empty",         \* no response, or one without text
     "object",        \* the text is a JSON object
     "non_object",    \* the text is JSON, but a list, a number or null
     "embedded",      \* not JSON, with a JSON object between braces
     "embedded_bad",  \* not JSON, with braces around what is not JSON
     "garbage"}       \* not JSON, without braces

\* json.loads(response_text) returns.
ParsesDirect(r) == r \in {"object", "non_object"}

\* re.search(r'\{.*\}', ...) matches and json.loads of the match returns.
ParsesExtracted(r) == r = "embedded"

\* insights_data has a get method.
IsObject(r) == r \in {"object", "embedded"}

\* Where the method goes with the response it got.
AfterResponse(r) ==
    CASE r = "raises" -> "except"
      [] r = "empty"  -> "record_false"
      [] ParsesDirect(r) \/ ParsesExtracted(r) -> "record_true"
      [] OTHER -> "record_false"

\* Where the method goes when its track_usage call has returned: after the
\* successful record the fields are validated with insights_data.get, inside
\* the try block, and an AttributeError is caught by "except Exception".
AfterRecorded(at, r) ==
    IF at = "record_true" /\ ~IsObject(r) THEN "except" ELSE "returned"

\* The arguments of the track_usage call made at a position.
AgentArgs(at) ==
    IF at = "record_true"
    THEN [input_tokens |-> 400, output_tokens |-> 20,
          component |-> "insight_agent", success |-> TRUE]
    ELSE [input_tokens |-> 0, output_tokens |-> 0,
          component |-> "insight_agent", success |-> FALSE]

InitAgent ==
    /\ agent_pc = "out"
    /\ response = "none"
    /\ agent_mark = 0
    /\ agent_calls = <<>>
    /\ agent_runs = 0

----------------------------------------------------------------------------
(* The bid rules of src/src/processors/optimizer.py.  The adjustment       *)
(* factor is a Python float, an IEEE double, and the rules add literals    *)
(* such as 0.15 that no double holds exactly.  A double x is held here as  *)
(* the pair [n, d] with x = (n * 2^57 + d) / (100 * 2^57): n whole         *)
(* hundredths and d what the double is off by, counted in hundredths of    *)
(* 2^-57.  Every double met by the rules is a multiple of 2^-57, and       *)
(* between 2^-5 and 2^-1 the doubles are 1, 2, 4 or 8 such units apart.    *)

UnitExp == 57

RECURSIVE TwoToMod(_, _)
\* 2^k modulo m, by squaring.
TwoToMod(k, m) ==
    IF k = 0 THEN 1 % m
    ELSE LET h == TwoToMod(k \div 2, m)
         IN  (h * h * (IF k % 2 = 1 THEN 2 ELSE 1)) % m

\* n hundredths, exactly.
Exact(n) == [n |-> n, d |-> 0]

Neg(x) == [n |-> -x.n, d |-> -x.d]

IsNegative(x) == x.n < 0 \/ (x.n = 0 /\ x.d < 0)

\* x < y on doubles.
Less(x, y) == x.n < y.n \/ (x.n = y.n /\ x.d < y.d)

\* abs(x)
Abs(x) == IF IsNegative(x) THEN Neg(x) ELSE x

\* The distance between neighbouring doubles at x >= 0, in units of 2^-57.
Ulp(x) ==
    CASE 4 * x.n < 25          -> 1     \* below 2^-4
      [] 2 * x.n < 25          -> 2     \* from 2^-4, below 2^-3
      [] Less(x, Exact(25))    -> 4     \* from 2^-3, below 2^-2
      [] OTHER                 -> 8     \* from 2^-2, below 2^-1

\* The double nearest to the exact value x >= 0, ties to the even one.
RoundMagnitude(x) ==
    LET m    == 100 * Ulp(x)
        r2   == (x.n * TwoToMod(UnitExp, 2 * m) + x.d) % (2 * m)
        r    == r2 % m
        odd  == r2 >= m
        down == 2 * r < m \/ (2 * r = m /\ ~odd)
    IN  [n |-> x.n, d |-> IF down THEN x.d - r ELSE x.d + (m - r)]

Rounded(x) ==
    IF IsNegative(x) THEN Neg(RoundMagnitude(Neg(x))) ELSE RoundMagnitude(x)

\* The double a literal of n hundredths denotes, such as 0.15.
Double(n) == Rounded(Exact(n))

\* x + y and x - y on doubles.
Plus(x, y) == Rounded([n |-> x.n + y.n, d |-> x.d + y.d])

Minus(x, y) == Plus(x, Neg(y))

\* min(x, y) and max(x, y) of Python: the first argument unless the second
\* is strictly beyond it.
Min(x, y) == IF Less(y, x) THEN y ELSE x

Max(x, y) == IF Less(x, y) THEN y ELSE x

\* self.target_roas, in hundredths
target_roas == 300

\* self.max_bid_change
max_bid_change == Double(25)

\* The ROAS rule: current.roas against target_roas * 0.7 and * 1.3.  roas,
\* ctr, avg_ctr and trend are in hundredths.
AfterRoas(f, current) ==
    IF 10 * current.roas < target_roas * 7 THEN Minus(f, Double(15))
    ELSE IF 10 * current.roas > target_roas * 13 THEN Plus(f, Double(20))
    ELSE f

\* The CTR rule: current.ctr against avg_ctr * 0.8 and * 1.2.
AfterCtr(f, current) ==
    IF 10 * current.ctr < current.avg_ctr * 8 THEN Minus(f, Double(10))
    ELSE IF 10 * current.ctr > current.avg_ctr * 12 THEN Plus(f, Double(10))
    ELSE f

\* The trend rule: trend against -0.2 and 0.2.
AfterTrend(f, current) ==
    IF current.trend < -20 THEN Minus(f, Double(5))
    ELSE IF current.trend > 20 THEN Plus(f, Double(5))
    ELSE f

\* adjustment_factor when the three rules have run, from 0.0.
RuleSum(current) == AfterTrend(AfterCtr(AfterRoas(Exact(0), current), current), current)

\* The clamp without its lower side.
ClampedAbove(f) == Min(f, max_bid_change)

\* max(-self.max_bid_change, min(adjustment_factor, self.max_bid_change))
Clamped(f) == Max(Neg(max_bid_change), Min(f, max_bid_change))

\* not (abs(adjustment_factor) < 0.05)
Significant(f) == ~Less(Abs(f), Double(5))

\* What _calculate_single_adjustment gives: None, or the dict with the
\* factor it applied to the bid.
SingleAdjustment(current) ==
    LET f == Clamped(RuleSum(current))
    IN  [called |-> TRUE, returned |-> Significant(f), factor |-> f,
         rules |-> RuleSum(current)]

NoAdjustment ==
    [called |-> FALSE, returned |-> FALSE, factor |-> Exact(0), rules |-> Exact(0)]

NoCampaign == [roas |-> 0, ctr |-> 0, avg_ctr |-> 0, trend |-> 0]

InitBid ==
    /\ campaign = NoCampaign
    /\ adjustment = NoAdjustment

----------------------------------------------------------------------------
(* The alert manager of src/src/alerts/alert.py.  A metric is held by its  *)
(* budget_utilization, in percent, and its roas; an alert by the three     *)
(* attributes its key is formatted from.                                   *)

\* self.thresholds, the two entries check_metrics reads
thresholds == [budget_utilization |-> 80, low_roas |-> 2]

\* len(self.alerts_sent) > 100
SentLimit == 100

\* self.alerts_sent[-50:]
SentKept == 50

Alert(type, name, value) ==
    [alert_type |-> type, metric_name |-> name, current_value |-> value]

\* The alerts check_metrics appends for one metric.
AlertsOfMetric(metric) ==
    (IF metric.budget_utilization > thresholds.budget_utilization
     THEN <<Alert("budget", "budget_utilization", metric.budget_utilization)>>
     ELSE <<>>)
    \o
    (IF metric.roas < thresholds.low_roas
     THEN <<Alert("performance", "roas", metric.roas)>>
     ELSE <<>>)

RECURSIVE Alerts(_)
\* The list check_metrics hands to _send_notifications.
Alerts(current) ==
    IF current = <<>> THEN <<>>
    ELSE AlertsOfMetric(Head(current)) \o Alerts(Tail(current))

\* f"{alert.alert_type}_{alert.metric_name}_{alert.current_value}": the
\* three parts joined; different values are formatted differently.
AlertKey(alert) == <<alert.alert_type, alert.metric_name, alert.current_value>>

\* key in self.alerts_sent
InList(key, list) == \E i \in 1..Len(list) : list[i] = key

\* list[-k:]
Last(list, k) ==
    IF Len(list) <= k THEN list ELSE SubSeq(list, Len(list) - k + 1, Len(list))

\* The list when a key has been appended and the size test made.
Remembered(list, key) ==
    LET appended == Append(list, key)
    IN  IF Len(appended) > SentLimit THEN Last(appended, SentKept) ELSE appended

RECURSIVE SendNotifications(_, _)
\* The loop of _send_notifications over the alerts, from the state st of
\* alerts_sent and of the posts made to Slack.  _send_slack_alert makes one
\* requests.post and keeps its failures to itself.
SendNotifications(alerts, st) ==
    IF alerts = <<>> THEN st
    ELSE LET key == AlertKey(Head(alerts))
         IN  IF InList(key, st.alerts_sent)
             THEN SendNotifications(Tail(alerts), st)
             ELSE SendNotifications(Tail(alerts),
                      [alerts_sent |-> Remembered(st.alerts_sent, key),
                       posts |-> st.posts (+) SetToBag({key})])

InitAlerts ==
    /\ slack_webhook = "unset"
    /\ alerts_sent = <<>>
    /\ posts = EmptyBag
    /\ issued = 0

----------------------------------------------------------------------------
Init ==
    /\ clock = 0
    /\ total_requests = 0
    /\ total_tokens = 0
    /\ total_input_tokens = 0
    /\ total_output_tokens = 0
    /\ call_times = <<>>
    /\ token_times = <<>>
    /\ heap = <<InitialComponentUsage>>
    /\ component_usage = 1
    /\ usage_lock = [owner |-> 0, depth |-> 0]
    /\ persistence_file = <<>>
    /\ pc = [t \in Threads |-> "idle"]
    /\ regs = [t \in Threads |-> NoRegs]
    /\ now = [t \in Threads |-> 0]
    /\ wake_at = [t \in Threads |-> 0]
    /\ ret = [t \in Threads |-> NoResult]
    /\ seen_breakdown = [t \in Threads |-> InitialComponentUsage]
    /\ log = EmptyBag
    /\ iter = [t \in Threads |-> 0]
    /\ admits = 0
    /\ entered = [t \in Threads |-> NoEntry]
    /\ save_calls = 0
    /\ writes = 0
    /\ stats_calls = 0
    /\ ticks = 0
    /\ instance = 1
    /\ class_lock = 0
    /\ initialized = "yes"
    /\ self_ref = [t \in Threads |-> 1]
    /\ created = 1
    /\ init_runs = 1
    /\ InitStore
    /\ InitAgent
    /\ InitBid
    /\ InitAlerts

----------------------------------------------------------------------------
(* track_usage *)

\* "with self._usage_lock:" and the loads of the "+=" statements.
TU_Enter(t) ==
    /\ pc[t] = "idle"
    /\ UNCHANGED <<singleton, adstore, agent, bidding, alerting>>
    /\ CanAcquire(usage_lock, t)
    /\ usage_lock' = Acquired(usage_lock, t)
    /\ regs' = [regs EXCEPT ![t] =
                  [total_requests      |-> total_requests,
                   total_tokens        |-> total_tokens,
                   total_input_tokens  |-> total_input_tokens,
                   total_output_tokens |-> total_output_tokens,
                   usage               |-> heap[component_usage]]]
    /\ pc' = [pc EXCEPT ![t] = "tu_store"]
    /\ UNCHANGED <<clock, ledger, persistence_file, now, wake_at, ret,
                   seen_breakdown, history>>

\* The stores of a call with arguments a, the periodic save and the release
\* of the lock.  The save calls get_usage_stats, which takes the lock again:
\* the call goes through only if the thread can acquire the lock it holds.
TU_Store(t, a) ==
    /\ pc[t] = "tu_store"
    /\ UNCHANGED <<singleton, adstore, agent, bidding, alerting>>
    /\ LET nt == CountedTotals(regs[t], a)
           nh == [heap EXCEPT ![component_usage] = CountedUsage(@, regs[t], a)]
           doc == Serialized(GetUsageStats(nt.total_requests, nt.total_tokens,
                                 nt.total_input_tokens, nt.total_output_tokens,
                                 component_usage, call_times, clock), nh, clock)
       IN  /\ total_requests' = nt.total_requests
           /\ total_tokens' = nt.total_tokens
           /\ total_input_tokens' = nt.total_input_tokens
           /\ total_output_tokens' = nt.total_output_tokens
           /\ token_times' = CountedTokenTimes(token_times, a, clock)
           /\ heap' = nh
           /\ IF ShouldSave(nt.total_requests)
              THEN \E io \in IoOutcomes :
                      /\ CanAcquire(usage_lock, t)
                      /\ persistence_file' = Written(persistence_file, doc, io)
                      /\ save_calls' = save_calls + 1
                      /\ writes' = IF io = "ok" /\ writes < MaxWritesCounted
                                    THEN writes + 1 ELSE writes
                      /\ pc' = [pc EXCEPT ![t] = AfterSave(io)]
              ELSE /\ pc' = [pc EXCEPT ![t] = "idle"]
                   /\ UNCHANGED <<persistence_file, save_calls, writes>>
    /\ log' = log (+) SetToBag({a})
    /\ usage_lock' = ReleasedBy(IF ShouldSave(CountedTotals(regs[t], a).total_requests)
                                 THEN Reentered(usage_lock, t)
                                 ELSE usage_lock, t)
    /\ regs' = [regs EXCEPT ![t] = NoRegs]
    /\ UNCHANGED <<clock, call_times, component_usage, now, wake_at, iter,
                   ret, seen_breakdown, admits, entered, stats_calls, ticks>>

----------------------------------------------------------------------------
(* get_usage_stats *)

\* Variant: the report prunes the request window with the test inverted.
StatsLedgerPruning ==
    /\ call_times' = SelectSeq(call_times, LAMBDA x : clock - x >= WindowSeconds)
    /\ UNCHANGED <<total_requests, total_tokens, total_input_tokens,
                   total_output_tokens, token_times, heap, component_usage>>

\* What a get_usage_stats call does to the ledger: nothing.
StatsLedger == UNCHANGED ledger

Stats(t) ==
    /\ pc[t] = "idle"
    /\ UNCHANGED <<singleton, adstore, agent, bidding, alerting>>
    /\ CanAcquire(usage_lock, t)
    /\ ret' = [ret EXCEPT ![t] =
                 GetUsageStats(total_requests, total_tokens, total_input_tokens,
                               total_output_tokens, component_usage, call_times,
                               clock)]
    /\ seen_breakdown' = [seen_breakdown EXCEPT ![t] = heap[component_usage]]
    /\ stats_calls' = stats_calls + 1
    /\ StatsLedger
    /\ UNCHANGED <<clock, usage_lock, persistence_file, pc, regs, now,
                   wake_at, iter, log, admits, entered, save_calls, writes, ticks>>

----------------------------------------------------------------------------
(* track_request_start and check_rate_limit *)

\* The token half of check_rate_limit, run with local time n: prune, sum,
\* and sleep once when the 90% threshold is reached.
CheckTpm(t, n) ==
    LET kept   == PruneTokens(token_times, n)
        recent == SumTokens(kept)
        oldest == IF kept # <<>> THEN MinTime(kept) ELSE n
    IN  /\ token_times' = kept
        /\ IF TpmReached(recent)
           THEN /\ pc' = [pc EXCEPT ![t] = "tpm_sleep"]
                /\ wake_at' = [wake_at EXCEPT ![t] = clock + WaitTime(n, oldest)]
           ELSE /\ pc' = [pc EXCEPT ![t] = "trs_append"]
                /\ UNCHANGED wake_at

\* "with self._usage_lock:", then check_rate_limit up to its first sleep.
TRS_Enter(t) ==
    /\ pc[t] = "idle"
    /\ UNCHANGED <<singleton, adstore, agent, bidding, alerting>>
    /\ CanAcquire(usage_lock, t)
    /\ usage_lock' = Acquired(usage_lock, t)
    /\ now' = [now EXCEPT ![t] = clock]
    /\ LET kept == Prune(call_times, clock)
       IN  /\ call_times' = kept
           /\ entered' = [entered EXCEPT ![t] =
                 IF Len(kept) >= rpm_limit
                 THEN [at |-> clock, oldest |-> kept[1], newest |-> kept[Len(kept)]]
                 ELSE NoEntry]
           /\ IF RpmReached(kept) /\ WaitTime(clock, OldestCall(kept)) > 0
              THEN /\ pc' = [pc EXCEPT ![t] = "rpm_sleep"]
                   /\ wake_at' = [wake_at EXCEPT ![t] =
                                    clock + WaitTime(clock, OldestCall(kept))]
                   /\ UNCHANGED token_times
              ELSE CheckTpm(t, clock)
    /\ UNCHANGED <<clock, total_requests, total_tokens, total_input_tokens,
                   total_output_tokens, heap, component_usage, persistence_file,
                   regs, iter, ret, seen_breakdown, log, admits, save_calls, writes,
                   stats_calls, ticks>>

\* time.sleep(wait_time) of the request check returns; the window is pruned
\* again and the token half follows.
CRL_RpmWake(t) ==
    /\ pc[t] = "rpm_sleep"
    /\ UNCHANGED <<singleton, adstore, agent, bidding, alerting>>
    /\ clock >= wake_at[t]
    /\ now' = [now EXCEPT ![t] = clock]
    /\ call_times' = Prune(call_times, clock)
    /\ CheckTpm(t, clock)
    /\ UNCHANGED <<clock, total_requests, total_tokens, total_input_tokens,
                   total_output_tokens, heap, component_usage, usage_lock,
                   persistence_file, regs, iter, ret, seen_breakdown, history>>

\* time.sleep(wait_time) of the token check returns; nothing is re-checked.
CRL_TpmWake(t) ==
    /\ pc[t] = "tpm_sleep"
    /\ UNCHANGED <<singleton, adstore, agent, bidding, alerting>>
    /\ clock >= wake_at[t]
    /\ pc' = [pc EXCEPT ![t] = "trs_append"]
    /\ UNCHANGED <<clock, ledger, usage_lock, persistence_file, regs, now,
                   wake_at, iter, ret, seen_breakdown, history>>

\* self.call_times.append(time.time()) and the release of the lock.
TRS_Append(t) ==
    /\ pc[t] = "trs_append"
    /\ UNCHANGED <<singleton, adstore, agent, bidding, alerting>>
    /\ call_times' = Admitted(call_times, clock)
    /\ admits' = admits + 1
    /\ usage_lock' = ReleasedBy(usage_lock, t)
    /\ pc' = [pc EXCEPT ![t] = "idle"]
    /\ now' = [now EXCEPT ![t] = 0]
    /\ wake_at' = [wake_at EXCEPT ![t] = 0]
    /\ entered' = [entered EXCEPT ![t] = NoEntry]
    /\ UNCHANGED <<clock, total_requests, total_tokens, total_input_tokens,
                   total_output_tokens, token_times, heap, component_usage,
                   persistence_file, regs, iter, ret, seen_breakdown, log,
                   save_calls, writes, stats_calls, ticks>>

----------------------------------------------------------------------------
(* The clock. *)

\* A second passes, a window length passes, or a sleeping thread's deadline
\* arrives.
TickSteps ==
    {1, WindowSeconds}
        \cup {wake_at[t] - clock : t \in {u \in Threads :
                 pc[u] \in {"rpm_sleep", "tpm_sleep"} /\ wake_at[u] > clock}}

Tick(d) ==
    /\ clock' = clock + d
    /\ UNCHANGED <<singleton, adstore, agent, bidding, alerting>>
    /\ ticks' = ticks + 1
    /\ UNCHANGED <<ledger, usage_lock, persistence_file, threadv, caller, log,
                   admits, entered, save_calls, writes, stats_calls>>

----------------------------------------------------------------------------
(* Workload of the accounting specification: few calls, varied arguments. *)

RecordInputs ==
    { [input_tokens |-> 100, output_tokens |-> 50, component |-> "collector",
       success |-> TRUE],
      [input_tokens |-> 10, output_tokens |-> 10, component |-> "test",
       success |-> TRUE],
      [input_tokens |-> 1000, output_tokens |-> 500, component |-> "test",
       success |-> TRUE],
      [input_tokens |-> 0, output_tokens |-> 0, component |-> "optimizer",
       success |-> FALSE],
      [input_tokens |-> 100, output_tokens |-> 50, component |-> "collector",
       success |-> FALSE],
      [input_tokens |-> 10, output_tokens |-> 10, component |-> "test",
       success |-> FALSE] }

Started == BagCardinality(log) + Cardinality({t \in Threads : pc[t] = "tu_store"})

Next ==
    \E t \in Threads :
        \/ Started < MaxRecords /\ TU_Enter(t) /\ UNCHANGED iter
        \/ \E a \in RecordInputs : TU_Store(t, a)
        \/ stats_calls < MaxStats /\ Stats(t)

Spec == Init /\ [][Next]_vars

----------------------------------------------------------------------------
(* Workload of the bulk specification: every thread issues up to           *)
(* MaxPerThread records, as test_thread_safety does, some of them failed.  *)

BulkInputs ==
    { [input_tokens |-> 10, output_tokens |-> 10, component |-> "test",
       success |-> TRUE],
      [input_tokens |-> 0, output_tokens |-> 0, component |-> "optimizer",
       success |-> FALSE] }

\* One iteration of "for _ in range(K): self.manager.track_usage(...)".
LoopCall(t) ==
    /\ iter[t] < MaxPerThread
    /\ iter' = [iter EXCEPT ![t] = @ + 1]
    /\ TU_Enter(t)

NextBulk ==
    \E t \in Threads :
        \/ LoopCall(t)
        \/ \E a \in BulkInputs : TU_Store(t, a)

SpecBulk == Init /\ [][NextBulk]_vars

----------------------------------------------------------------------------
(* Workload of the admission specification: bursts of admissions while the *)
(* clock runs.                                                             *)

InAdmit == {t \in Threads : pc[t] \in {"rpm_sleep", "tpm_sleep", "trs_append"}}

NextRate ==
    \/ \E t \in Threads :
          \/ admits + Cardinality(InAdmit) < MaxAdmits /\ TRS_Enter(t)
          \/ CRL_RpmWake(t)
          \/ TRS_Append(t)
    \/ \E d \in TickSteps : ticks < MaxTicks /\ Tick(d)

SpecRate == Init /\ [][NextRate]_vars

----------------------------------------------------------------------------
(* Workload of the reporting specification: a few admissions, records      *)
(* large enough to reach the token threshold, and reports, while the clock *)
(* runs.                                                                   *)

BigInputs ==
    { [input_tokens |-> 450000, output_tokens |-> 450000,
       component |-> "insight_agent", success |-> TRUE] }

NextWatch ==
    \/ \E t \in Threads :
          \/ admits + Cardinality(InAdmit) < MaxFewAdmits /\ TRS_Enter(t)
          \/ CRL_TpmWake(t)
          \/ TRS_Append(t)
          \/ Started < MaxBigRecords /\ TU_Enter(t) /\ UNCHANGED iter
          \/ \E a \in BigInputs : TU_Store(t, a)
          \/ stats_calls < MaxStats /\ Stats(t)
    \/ \E d \in TickSteps : ticks < MaxFewTicks /\ Tick(d)

SpecWatch == Init /\ [][NextWatch]_vars

----------------------------------------------------------------------------
(* CreditManager(): __new__, then __init__ on the object it returned. *)

\* "if cls._instance is None:" outside the class lock; when an object is
\* there it is returned as it is.
New_Check(t) ==
    /\ pc[t] = "start"
    /\ IF instance = 0
       THEN /\ pc' = [pc EXCEPT ![t] = "new_lock"]
            /\ UNCHANGED self_ref
       ELSE /\ pc' = [pc EXCEPT ![t] = "init_check"]
            /\ self_ref' = [self_ref EXCEPT ![t] = instance]
    /\ UNCHANGED <<adstore, agent, bidding, alerting>>
    /\ UNCHANGED <<clock, ledger, usage_lock, persistence_file, regs, now,
                   wake_at, ret, seen_breakdown, caller, history, instance,
                   class_lock, initialized, created, init_runs>>

\* "with cls._lock:" and the second test; the object made by super().__new__
\* is stored in cls._instance before it has an _initialized attribute.
New_Lock(t) ==
    /\ pc[t] = "new_lock"
    /\ class_lock = 0
    /\ IF instance = 0
       THEN /\ class_lock' = t
            /\ created' = created + 1
            /\ instance' = created + 1
            /\ initialized' = "unset"
            /\ pc' = [pc EXCEPT ![t] = "new_made"]
            /\ UNCHANGED self_ref
       ELSE /\ pc' = [pc EXCEPT ![t] = "init_check"]
            /\ self_ref' = [self_ref EXCEPT ![t] = instance]
            /\ UNCHANGED <<class_lock, created, instance, initialized>>
    /\ UNCHANGED <<adstore, agent, bidding, alerting>>
    /\ UNCHANGED <<clock, ledger, usage_lock, persistence_file, regs, now,
                   wake_at, ret, seen_breakdown, caller, history, init_runs>>

\* "cls._instance._initialized = False", the release of the class lock and
\* "return cls._instance".
New_Mark(t) ==
    /\ pc[t] = "new_made"
    /\ initialized' = "no"
    /\ class_lock' = 0
    /\ self_ref' = [self_ref EXCEPT ![t] = instance]
    /\ pc' = [pc EXCEPT ![t] = "init_check"]
    /\ UNCHANGED <<adstore, agent, bidding, alerting>>
    /\ UNCHANGED <<clock, ledger, usage_lock, persistence_file, regs, now,
                   wake_at, ret, seen_breakdown, caller, history, instance,
                   created, init_runs>>

\* "if self._initialized: return", made without a lock; the read raises
\* AttributeError when the attribute is not there yet.
Init_Check(t) ==
    /\ pc[t] = "init_check"
    /\ pc' = [pc EXCEPT ![t] =
                CASE initialized = "unset" -> "raised"
                  [] initialized = "yes"   -> "idle"
                  [] initialized = "no"    -> "init_body"]
    /\ UNCHANGED <<adstore, agent, bidding, alerting>>
    /\ UNCHANGED <<clock, ledger, usage_lock, persistence_file, regs, now,
                   wake_at, ret, seen_breakdown, caller, history, singleton>>

\* The body of __init__, taken as one step: counters, windows, a new
\* component_usage dict, a new RLock, and _initialized = True.
Init_Body(t) ==
    /\ pc[t] = "init_body"
    /\ total_requests' = 0
    /\ total_tokens' = 0
    /\ total_input_tokens' = 0
    /\ total_output_tokens' = 0
    /\ call_times' = <<>>
    /\ token_times' = <<>>
    /\ heap' = Append(heap, InitialComponentUsage)
    /\ component_usage' = Len(heap) + 1
    /\ usage_lock' = [owner |-> 0, depth |-> 0]
    /\ initialized' = "yes"
    /\ init_runs' = init_runs + 1
    /\ pc' = [pc EXCEPT ![t] = "idle"]
    /\ UNCHANGED <<adstore, agent, bidding, alerting>>
    /\ UNCHANGED <<clock, persistence_file, regs, now, wake_at, ret,
                   seen_breakdown, caller, history, instance, class_lock,
                   self_ref, created>>

----------------------------------------------------------------------------
(* Workload of the first-use specification: no instance exists yet; every  *)
(* thread calls get_credit_manager() and then records on what it got.      *)

InitFirstUse ==
    /\ clock = 0
    /\ total_requests = 0
    /\ total_tokens = 0
    /\ total_input_tokens = 0
    /\ total_output_tokens = 0
    /\ call_times = <<>>
    /\ token_times = <<>>
    /\ heap = <<>>
    /\ component_usage = 0
    /\ usage_lock = [owner |-> 0, depth |-> 0]
    /\ persistence_file = <<>>
    /\ pc = [t \in Threads |-> "start"]
    /\ regs = [t \in Threads |-> NoRegs]
    /\ now = [t \in Threads |-> 0]
    /\ wake_at = [t \in Threads |-> 0]
    /\ ret = [t \in Threads |-> NoResult]
    /\ seen_breakdown = [t \in Threads |-> InitialComponentUsage]
    /\ log = EmptyBag
    /\ iter = [t \in Threads |-> 0]
    /\ admits = 0
    /\ entered = [t \in Threads |-> NoEntry]
    /\ save_calls = 0
    /\ writes = 0
    /\ stats_calls = 0
    /\ ticks = 0
    /\ instance = 0
    /\ class_lock = 0
    /\ initialized = "unset"
    /\ self_ref = [t \in Threads |-> 0]
    /\ created = 0
    /\ init_runs = 0
    /\ InitStore
    /\ InitAgent
    /\ InitBid
    /\ InitAlerts

NextFirstUse ==
    \E t \in Threads :
        \/ New_Check(t)
        \/ New_Lock(t)
        \/ New_Mark(t)
        \/ Init_Check(t)
        \/ Init_Body(t)
        \/ Started < MaxFirstRecords /\ TU_Enter(t) /\ UNCHANGED iter
        \/ \E a \in BulkInputs : TU_Store(t, a)

SpecFirstUse == InitFirstUse /\ [][NextFirstUse]_vars

----------------------------------------------------------------------------
(* Workload of the waiting specification: bursts of admissions beside      *)
(* records large enough to reach the token threshold, so that a call can   *)
(* wait for the request budget and then for the token budget.              *)

\* time.sleep(wait_time) of thread t runs its course.
Elapse(t) ==
    /\ pc[t] \in {"rpm_sleep", "tpm_sleep"}
    /\ wake_at[t] > clock
    /\ clock' = wake_at[t]
    /\ UNCHANGED <<ledger, usage_lock, persistence_file, threadv, caller,
                   history, singleton, adstore, agent, bidding, alerting>>

NextWait ==
    \/ \E t \in Threads :
          \/ admits + Cardinality(InAdmit) < MaxAdmits /\ TRS_Enter(t)
          \/ CRL_RpmWake(t)
          \/ CRL_TpmWake(t)
          \/ TRS_Append(t)
          \/ Started < MaxBigRecords /\ TU_Enter(t) /\ UNCHANGED iter
          \/ \E a \in BigInputs : TU_Store(t, a)
          \/ Elapse(t)
    \/ clock < MaxEarly /\ Tick(1)

SpecWait == Init /\ [][NextWait]_vars

\* The next step of the thread that is inside a call, the end of its sleep
\* included.
Continue ==
    \E t \in Threads :
        \/ Elapse(t)
        \/ CRL_RpmWake(t)
        \/ CRL_TpmWake(t)
        \/ TRS_Append(t)
        \/ \E a \in BigInputs : TU_Store(t, a)

\* Time advances for a sleeping thread, and a thread that can take its next
\* step inside a call does take it.
Fairness == WF_vars(Continue)

SpecWaitFair == Init /\ [][NextWait]_vars /\ Fairness

----------------------------------------------------------------------------
(* Workload of the calls specification: the calls of an agent request, an  *)
(* admission and then a record of a large response or of a failure, made   *)
(* by every thread while the first seconds pass.                           *)

CallInputs ==
    { [input_tokens |-> 450000, output_tokens |-> 450000,
       component |-> "insight_agent", success |-> TRUE],
      [input_tokens |-> 0, output_tokens |-> 0,
       component |-> "insight_agent", success |-> FALSE] }

NextCalls ==
    \/ \E t \in Threads :
          \/ admits + Cardinality(InAdmit) < MaxCallAdmits /\ TRS_Enter(t)
          \/ CRL_TpmWake(t)
          \/ TRS_Append(t)
          \/ Started < MaxCallRecords /\ TU_Enter(t) /\ UNCHANGED iter
          \/ \E a \in CallInputs : TU_Store(t, a)
          \/ Elapse(t)
    \/ clock < MaxEarly /\ Tick(1)

SpecCalls == Init /\ [][NextCalls]_vars

----------------------------------------------------------------------------
(* The operations of the ad store. *)

credit == <<clock, ledger, usage_lock, persistence_file, threadv, caller,
            history, singleton>>

\* store_ad: the entry is put into self.ads and _save_ads dumps the dict.
store_ad(ad) ==
    /\ ads' = Put(ads, Entry(ad))
    /\ ads_file' = ads'
    /\ stored' = Put(stored, Entry(ad))
    /\ store_calls' = store_calls + 1
    /\ UNCHANGED <<found, read_calls, credit, agent, bidding, alerting>>

\* find_similar_ads: works on copies, the store stays as it is.
find_similar_ads(query, min_performance, limit) ==
    /\ found' = [call |-> read_calls + 1, query |-> query,
                 min_performance |-> min_performance, limit |-> limit]
                   @@ FindSimilarAds(ads, query, min_performance, limit)
    /\ read_calls' = read_calls + 1
    /\ UNCHANGED <<ads, ads_file, stored, store_calls, credit, agent, bidding, alerting>>

get_top_performers(platform, limit) ==
    /\ ads' = AfterTopPerformers(ads, platform, limit)
    /\ read_calls' = read_calls + 1
    /\ UNCHANGED <<ads_file, found, stored, store_calls, credit, agent, bidding, alerting>>

\* analyze_patterns: returns at once on an empty store, and calls
\* get_top_performers(limit=20) otherwise; the rest only reads its result.
analyze_patterns ==
    /\ ads' = IF ads = <<>> THEN ads ELSE AfterTopPerformers(ads, "", 20)
    /\ read_calls' = read_calls + 1
    /\ UNCHANGED <<ads_file, found, stored, store_calls, credit, agent, bidding, alerting>>

----------------------------------------------------------------------------
(* Workload of the store specification: the ad of the pattern-analysis     *)
(* test and two ads as main.py stores them, one of them a second version   *)
(* of the other under the same ad_id, with reads between the stores.       *)

AdInputs ==
    { [ad_id |-> "test_001", platform |-> "google_ads",
       headline |-> <<"Test", "Headline">>,
       description |-> <<"Test", "Description">>,
       cta |-> <<"Learn", "More">>, ctr |-> 35, roas |-> 45],
      [ad_id |-> "camp_1_ad", platform |-> "meta",
       headline |-> <<"High", "Performing", "Ad">>,
       description |-> <<"Ad", "description">>,
       cta |-> <<"Learn", "More">>, ctr |-> 31, roas |-> 32],
      [ad_id |-> "camp_1_ad", platform |-> "meta",
       headline |-> <<"High", "Performing", "Ad">>,
       description |-> <<"Ad", "description">>,
       cta |-> <<"Learn", "More">>, ctr |-> 40, roas |-> 50] }

Queries == { <<"Learn", "More">>, <<"test", "ad">> }

MinPerformances == { <<>>, [min_ctr |-> 33] }

FindLimits == {5, 1}

Platforms == {"", "google_ads"}

TopLimits == {10, 1}

NextStore ==
    \/ \E ad \in AdInputs : store_calls < MaxStores /\ store_ad(ad)
    \/ \E q \in Queries, mp \in MinPerformances, l \in FindLimits :
          read_calls < MaxReads /\ find_similar_ads(q, mp, l)
    \/ \E p \in Platforms, l \in TopLimits :
          read_calls < MaxReads /\ get_top_performers(p, l)
    \/ read_calls < MaxReads /\ analyze_patterns

SpecStore == Init /\ [][NextStore]_vars

----------------------------------------------------------------------------
(* Workload of the report specification: bursts of admissions up to a full *)
(* window and beyond, a record, and reports read once the window is nearly *)
(* full, at different ages of its events.                                  *)

ReportInputs ==
    { [input_tokens |-> 1000, output_tokens |-> 500,
       component |-> "insight_agent", success |-> TRUE] }

ReportTickSteps == {WindowSeconds - 1, WindowSeconds}

NextReport ==
    \/ \E t \in Threads :
          \/ admits + Cardinality(InAdmit) < MaxAdmits /\ TRS_Enter(t)
          \/ CRL_RpmWake(t)
          \/ TRS_Append(t)
          \/ Started < MaxReportRecords /\ admits = 0 /\ TU_Enter(t) /\ UNCHANGED iter
          \/ \E a \in ReportInputs : TU_Store(t, a)
          \/ stats_calls < MaxStats /\ admits >= rpm_limit - 1 /\ Stats(t)
          \/ Elapse(t)
    \/ \E d \in ReportTickSteps : ticks < MaxReportTicks /\ Tick(d)

SpecReport == Init /\ [][NextReport]_vars

----------------------------------------------------------------------------
(* The steps of _generate_llm_insights, run by one thread.  Its ledger     *)
(* calls are the ledger's own actions, taken when the method stands at the *)
(* call; the method moves on when the call has returned.                   *)

AgentThread == 1

\* The ledger calls that have returned.
Returned == admits + BagCardinality(log)

\* analyze_performance calls the method.
A_Begin ==
    /\ agent_pc = "out"
    /\ agent_runs < MaxRuns
    /\ agent_pc' = "admit"
    /\ agent_runs' = agent_runs + 1
    /\ agent_mark' = Returned
    /\ agent_calls' = <<>>
    /\ response' = "none"
    /\ UNCHANGED <<credit, adstore, bidding, alerting>>

\* track_request_start has returned; the prompt is built and the model
\* called.
A_Generate(r) ==
    /\ agent_pc = "admit"
    /\ Returned = agent_mark + 1
    /\ pc[AgentThread] = "idle"
    /\ response' = r
    /\ agent_calls' = Append(agent_calls, "track_request_start")
    /\ agent_mark' = Returned
    /\ agent_pc' = AfterResponse(r)
    /\ UNCHANGED <<agent_runs, credit, adstore, bidding, alerting>>

\* A track_usage call of the method has returned.
A_Recorded ==
    /\ agent_pc \in {"record_true", "record_false", "except"}
    /\ Returned = agent_mark + 1
    /\ pc[AgentThread] = "idle"
    /\ agent_calls' = Append(agent_calls,
                             IF agent_pc = "record_true" THEN "track_usage(True)"
                             ELSE "track_usage(False)")
    /\ agent_mark' = Returned
    /\ agent_pc' = AfterRecorded(agent_pc, response)
    /\ UNCHANGED <<response, agent_runs, credit, adstore, bidding, alerting>>

\* The method returns its report.
A_Return ==
    /\ agent_pc = "returned"
    /\ agent_pc' = "out"
    /\ UNCHANGED <<response, agent_mark, agent_calls, agent_runs, credit, adstore, bidding, alerting>>

NextAgent ==
    \/ A_Begin
    \/ agent_pc = "admit" /\ Returned = agent_mark /\ TRS_Enter(AgentThread)
    \/ TRS_Append(AgentThread)
    \/ \E r \in Responses : A_Generate(r)
    \/ /\ agent_pc \in {"record_true", "record_false", "except"}
       /\ Returned = agent_mark
       /\ TU_Enter(AgentThread)
       /\ UNCHANGED iter
    \/ TU_Store(AgentThread, AgentArgs(agent_pc))
    \/ A_Recorded
    \/ A_Return
    \/ clock < MaxEarly /\ Tick(1)

SpecAgent == Init /\ [][NextAgent]_vars

----------------------------------------------------------------------------
(* The bid optimizer: one _calculate_single_adjustment call per step, on   *)
(* campaigns whose values lie on both sides of every threshold of the      *)
(* rules and on the thresholds of the ROAS and trend rules.                *)

RoasValues == {150, 210, 300, 390, 450}

CtrValues == {100, 200, 300}

TrendValues == {-50, -20, 0, 20, 50}

Campaigns ==
    [roas : RoasValues, ctr : CtrValues, avg_ctr : CtrValues, trend : TrendValues]

calculate_single_adjustment(current) ==
    /\ campaign' = current
    /\ adjustment' = SingleAdjustment(current)
    /\ UNCHANGED <<credit, adstore, agent, alerting>>

NextBid == \E current \in Campaigns : calculate_single_adjustment(current)

SpecBid == Init /\ [][NextBid]_vars

----------------------------------------------------------------------------
(* The alert manager: one instance, made with or without a webhook, and    *)
(* check_metrics calls on lists of metrics.  A metric's budget_utilization *)
(* is a value no call has held before, the first value any call held, or   *)
(* one below the threshold; its roas lies on either side of low_roas.      *)

MaxIssued == 102

MaxMetrics == 2

\* AlertManager.__init__
AlertManager(webhook) ==
    /\ slack_webhook = "unset"
    /\ slack_webhook' = webhook
    /\ alerts_sent' = <<>>
    /\ UNCHANGED <<posts, issued, credit, adstore, agent, bidding>>

FirstBudget == thresholds.budget_utilization + 1

BudgetValues == {thresholds.budget_utilization - 30, FirstBudget, FirstBudget + issued}

RoasOfMetrics == {thresholds.low_roas - 1, thresholds.low_roas + 1}

MetricLists ==
    UNION {[1..k -> [budget_utilization : BudgetValues, roas : RoasOfMetrics]] :
              k \in 1..MaxMetrics}

\* check_metrics with the _send_notifications call it ends with.
check_metrics(current) ==
    /\ slack_webhook # "unset"
    /\ LET after == SendNotifications(Alerts(current),
                        [alerts_sent |-> alerts_sent, posts |-> posts])
       IN  IF slack_webhook = "none"
           THEN UNCHANGED <<alerts_sent, posts>>
           ELSE /\ alerts_sent' = after.alerts_sent
                /\ posts' = after.posts
    /\ issued' = IF \E i \in 1..Len(current) :
                        current[i].budget_utilization = FirstBudget + issued
                 THEN issued + 1 ELSE issued
    /\ UNCHANGED <<slack_webhook, credit, adstore, agent, bidding>>

NextAlerts ==
    \/ \E webhook \in {"none", "url"} : AlertManager(webhook)
    \/ \E current \in MetricLists :
          /\ issued < MaxIssued
          /\ check_metrics(current)

SpecAlerts == Init /\ [][NextAlerts]_vars

----------------------------------------------------------------------------
(* What the history says the counters should be. *)

Successes == {a \in BagToSet(log) : a.success}

Failures == {a \in BagToSet(log) : ~a.success}

RECURSIVE LogCount(_)
LogCount(S) ==
    IF S = {} THEN 0
    ELSE LET a == CHOOSE x \in S : TRUE
         IN  CopiesIn(a, log) + LogCount(S \ {a})

RECURSIVE LogSum(_, _)
LogSum(S, f) ==
    IF S = {} THEN 0
    ELSE LET a == CHOOSE x \in S : TRUE
         IN  CopiesIn(a, log) * a[f] + LogSum(S \ {a}, f)

LogTokens(S) == LogSum(S, "input_tokens") + LogSum(S, "output_tokens")

Usage == heap[component_usage]

AllIdle == \A t \in Threads : pc[t] = "idle"

Live(times, t) == {i \in 1..Len(times) : t - times[i] < WindowSeconds}

LiveTokens(events, t) == {i \in 1..Len(events) : t - events[i][1] < WindowSeconds}

\* The step completes a track_usage call with arguments a.
Recorded(a) == log' = log (+) SetToBag({a})

----------------------------------------------------------------------------
(* C1. Request budget: whenever track_request_start has appended its event, *)
(* and in every state after, the request events younger than 60 s number at *)
(* most rpm_limit, and any rpm_limit + 1 consecutive request events span    *)
(* 60 s or more.                                                            *)
C1_RequestBudget ==
    /\ Cardinality(Live(call_times, clock)) <= rpm_limit
    /\ \A i \in 1..Len(call_times) :
          i + rpm_limit <= Len(call_times)
              => call_times[i + rpm_limit] - call_times[i] >= WindowSeconds

\* An admission beyond the fifteenth has waited and left the window full.
C1_Witness ==
    /\ admits = rpm_limit + 1
    /\ Cardinality(Live(call_times, clock)) = rpm_limit
    /\ AllIdle

(* C2. No lost updates: once every thread's track_usage calls have          *)
(* returned, total_requests is the number of successful calls made and      *)
(* total_tokens the sum of their tokens; when each of the T threads has     *)
(* made K calls, all successful, total_requests is T*K.                     *)
C2_NoLostUpdates ==
    AllIdle =>
        /\ total_requests = LogCount(Successes)
        /\ total_tokens = LogTokens(Successes)
        /\ \A k \in 0..MaxPerThread :
              ((\A t \in Threads : iter[t] = k) /\ Failures = {})
                  => total_requests = NumThreads * k

\* Every thread has finished its loop of successful calls.
C2_Witness ==
    /\ AllIdle
    /\ \A t \in Threads : iter[t] = MaxPerThread
    /\ Failures = {}
    /\ total_requests = NumThreads * MaxPerThread
    /\ total_tokens = 20 * NumThreads * MaxPerThread

(* C3. Accounting additivity: the three token totals are the sums of the    *)
(* input, output and input+output tokens of the successful calls made, and  *)
(* total_requests is their number; so total_tokens is the sum of the other  *)
(* two totals.                                                              *)
C3_Additivity ==
    /\ total_input_tokens = LogSum(Successes, "input_tokens")
    /\ total_output_tokens = LogSum(Successes, "output_tokens")
    /\ total_tokens = LogTokens(Successes)
    /\ total_requests = LogCount(Successes)
    /\ total_tokens = total_input_tokens + total_output_tokens

\* Two successful calls with different token pairs, and a failed one.
C3_Witness ==
    /\ total_requests = 2
    /\ total_input_tokens = 110
    /\ total_output_tokens = 60
    /\ Failures # {}

(* C4. Per-component attribution: a registered component's calls are the    *)
(* successful calls made for it, its tokens the sum of their tokens and its *)
(* errors the failed calls made for it.                                     *)
C4_Attribution ==
    \A c \in Registry :
        LET ok  == {a \in Successes : a.component = c}
            bad == {a \in Failures : a.component = c}
        IN  /\ Usage[c].calls = LogCount(ok)
            /\ Usage[c].tokens = LogTokens(ok)
            /\ Usage[c].errors = LogCount(bad)

\* Calls and errors of one component beside errors of another.
C4_Witness ==
    /\ Usage["collector"] = [calls |-> 1, tokens |-> 150, errors |-> 1]
    /\ Usage["optimizer"].errors = 1

(* C5. Unregistered component: a successful call for a component that is    *)
(* no key of the registry adds one request and its tokens to the totals and *)
(* leaves the breakdown as it is, without an entry for that component; a    *)
(* failed one changes nothing in the ledger.                                *)
C5_Unregistered ==
    [][\A a \in BagToSet(log') :
         (Recorded(a) /\ a.component \notin Registry) =>
            /\ heap' = heap
            /\ DOMAIN heap'[component_usage'] = Registry
            /\ IF a.success
               THEN /\ total_requests' = total_requests + 1
                    /\ total_tokens' = total_tokens + Tokens(a)
                    /\ total_input_tokens' = total_input_tokens + a.input_tokens
                    /\ total_output_tokens' = total_output_tokens + a.output_tokens
               ELSE UNCHANGED ledger]_vars

\* A successful and a failed call for an unregistered component were made.
C5_Witness ==
    /\ \E a \in Successes : a.component \notin Registry
    /\ \E a \in Failures : a.component \notin Registry
    /\ total_requests = 1

(* C6. A failed call for a registered component adds one to that            *)
(* component's errors and changes nothing else: not the totals, not the two *)
(* windows, not any calls or tokens counter, not another component.         *)
C6_FailedRecord ==
    [][\A a \in BagToSet(log') :
         (Recorded(a) /\ ~a.success /\ a.component \in Registry) =>
            /\ UNCHANGED <<total_requests, total_tokens, total_input_tokens,
                           total_output_tokens, call_times, token_times,
                           component_usage>>
            /\ heap' = [heap EXCEPT ![component_usage][a.component].errors = @ + 1]]_vars

\* A failed call that passed token counts was made for a registered component.
C6_Witness ==
    /\ \E a \in Failures : a.component \in Registry /\ Tokens(a) > 0
    /\ Usage["collector"].errors = 1
    /\ total_requests = 0

(* C7. Admission blocking: a track_request_start call that finds rpm_limit  *)
(* request events in the window does not return before the oldest of them   *)
(* is more than 60 s old; when those events lie within one second and the   *)
(* call comes within two seconds of the oldest, it does not return before   *)
(* 59 s have passed since the call.                                         *)
C7_AdmissionBlocking ==
    \A t \in Threads :
        (pc[t] = "trs_append" /\ entered[t] # NoEntry) =>
            /\ clock - entered[t].oldest > WindowSeconds
            /\ (/\ entered[t].newest - entered[t].oldest <= 1
                /\ entered[t].at - entered[t].oldest <= 2)
                   => clock - entered[t].at >= WindowSeconds - 1

\* The sixteenth call, made two seconds into a burst that spans one second,
\* is about to return 59 s after it was made.
C7_Witness ==
    \E t \in Threads :
        /\ pc[t] = "trs_append"
        /\ entered[t] # NoEntry
        /\ entered[t].newest - entered[t].oldest = 1
        /\ entered[t].at - entered[t].oldest = 2
        /\ clock - entered[t].at = WindowSeconds - 1

(* C8. Snapshot cadence: a track_usage call performs a snapshot write when  *)
(* total_requests, after the call's accounting, is a multiple of 10, and no *)
(* snapshot write is performed otherwise.                                   *)
C8_SnapshotCadence ==
    [][/\ (\E a \in BagToSet(log') : Recorded(a)) =>
              (save_calls' = save_calls + 1 <=> total_requests' % SaveEvery = 0)
       /\ save_calls' # save_calls =>
              /\ \E a \in BagToSet(log') : Recorded(a)
              /\ save_calls' = save_calls + 1]_vars

\* A snapshot of ten requests has been written, after one of none.
C8_Witness ==
    /\ total_requests = SaveEvery
    /\ save_calls >= 2
    /\ persistence_file # <<>>
    /\ persistence_file[1].stats.total_requests = SaveEvery

(* C9. A get_usage_stats result is a point-in-time copy: the component      *)
(* breakdown a caller holds keeps the content it had when it was returned.  *)
C9_StatsIsCopy ==
    \A t \in Threads :
        ret[t] # NoResult => heap[ret[t].component_breakdown] = seen_breakdown[t]

(* C10. get_usage_stats never mutates the ledger: a call leaves the totals  *)
(* and every per-component counter as they are, and leaves as many live     *)
(* request and token events as there were.                                  *)
C10_StatsReadOnly ==
    [][stats_calls' # stats_calls =>
         /\ UNCHANGED <<total_requests, total_tokens, total_input_tokens,
                        total_output_tokens, heap, component_usage>>
         /\ Cardinality(Live(call_times', clock')) =
                Cardinality(Live(call_times, clock))
         /\ Cardinality(LiveTokens(token_times', clock')) =
                Cardinality(LiveTokens(token_times, clock))]_vars

\* A report was made after a record made at second 60, while the request
\* window held an event of second 0, expired, beside a live one.
C10_Witness ==
    \E t \in Threads :
        /\ ret[t] # NoResult
        /\ ret[t].total_requests = 1
        /\ ret[t].current_rpm = 1
        /\ token_times # <<>>
        /\ token_times[1][1] = WindowSeconds
        /\ Len(call_times) = 2
        /\ call_times[1] = 0

----------------------------------------------------------------------------
\* The threads inside a time.sleep of check_rate_limit.
Suspended == {t \in Threads : pc[t] \in {"rpm_sleep", "tpm_sleep"}}

(* C11, as stated. Non-blocking reads and records: while another thread is  *)
(* suspended inside track_request_start, a thread that calls track_usage or *)
(* get_usage_stats goes ahead without waiting for that suspension.          *)
C11_NeverBlocked ==
    \A t \in Threads :
        (pc[t] = "idle" /\ Suspended # {}) =>
            /\ ENABLED TU_Enter(t)
            /\ ENABLED Stats(t)

(* C11, amended. track_usage and get_usage_stats hold no suspension of      *)
(* their own and wait for the ledger lock only: they go ahead when no       *)
(* thread is inside a ledger call, a track_usage call that holds the lock   *)
(* completes whatever the clock and the windows are, and for as long as     *)
(* another thread is suspended inside track_request_start neither of them   *)
(* can start.                                                               *)
C11_WaitOnlyForLock ==
    \A t \in Threads :
        /\ (pc[t] = "idle" /\ AllIdle) =>
              /\ ENABLED TU_Enter(t)
              /\ ENABLED Stats(t)
        /\ (pc[t] = "idle" /\ Suspended # {}) =>
              /\ ~ENABLED TU_Enter(t)
              /\ ~ENABLED Stats(t)
        /\ pc[t] = "tu_store" => \E a \in BigInputs : ENABLED TU_Store(t, a)

\* A second has passed of a thread's suspension, with another thread idle.
C11_Witness ==
    \E u \in Suspended : \E t \in Threads :
        /\ pc[t] = "idle"
        /\ now[u] < clock
        /\ clock < wake_at[u]

(* C12. Hold-lock policy: a thread inside track_request_start, from the     *)
(* start of its wait until the call returns, owns the ledger lock, and      *)
(* every step taken meanwhile that is not its own leaves the ledger, the    *)
(* snapshot file and every other thread's call where they are: only the     *)
(* clock moves.                                                             *)
C12_HoldLock ==
    [][\A t \in InAdmit :
         /\ usage_lock.owner = t
         /\ pc'[t] = pc[t] =>
               UNCHANGED <<ledger, usage_lock, persistence_file, pc, regs, ret,
                           seen_breakdown, log, admits, save_calls, writes,
                           stats_calls>>]_vars

\* A thread has slept its whole wait and is about to return, after a record
\* had been made and while another thread stood idle.
C12_Witness ==
    \E t \in Threads : \E u \in Threads \ {t} :
        /\ pc[t] = "trs_append"
        /\ now[t] < wake_at[t]
        /\ wake_at[t] <= clock
        /\ pc[u] = "idle"
        /\ total_requests > 0

----------------------------------------------------------------------------
(* C13. Singleton identity: every CreditManager() call returns, and all of  *)
(* them return the one object ever made; no call ends in an exception.      *)
C13_SameInstance ==
    /\ created <= 1
    /\ \A t \in Threads : pc[t] # "raised"
    /\ \A t, u \in Threads :
          (self_ref[t] # 0 /\ self_ref[u] # 0) => self_ref[t] = self_ref[u]

(* C14. The ledger is constructed once: the body of __init__ runs at most   *)
(* once, so the lock a thread holds inside track_usage is the ledger's      *)
(* lock, and between calls total_requests is the number of successful       *)
(* records made.                                                            *)
C14_ConstructedOnce ==
    /\ init_runs <= 1
    /\ \A t \in Threads : pc[t] = "tu_store" => usage_lock.owner = t
    /\ (\A t \in Threads : pc[t] # "tu_store") =>
          total_requests = LogCount(Successes)

(* C15. Single mutual-exclusion domain: at most one thread is inside the    *)
(* critical section of a ledger operation, and a thread inside one owns the *)
(* lock that self._usage_lock names.                                        *)
C15_OneDomain ==
    LET inside == {t \in Threads : pc[t] \in {"tu_store", "rpm_sleep",
                                               "tpm_sleep", "trs_append"}}
    IN  /\ Cardinality(inside) <= 1
        /\ \A t \in inside : usage_lock.owner = t

(* C16. Cost formula: the estimated_cost a get_usage_stats call returns is  *)
(* the input total at 0.075 dollars per million tokens plus the output      *)
(* total at 0.30 dollars per million, the totals being those of all         *)
(* successful calls made, registered component or not, and of no failed     *)
(* one.                                                                     *)
C16_CostFormula ==
    [][\A t \in Threads :
         ret'[t] # ret[t] =>
            /\ ret'[t].estimated_cost =
                  total_input_tokens * cost_per_million_input
                      + total_output_tokens * cost_per_million_output
            /\ ret'[t].estimated_cost =
                  LogSum(Successes, "input_tokens") * cost_per_million_input
                      + LogSum(Successes, "output_tokens") * cost_per_million_output]_vars

\* The report after track_usage(1000, 500, 'test', True) beside a failed call:
\* (1000 * 0.075 + 500 * 0.30) / 1,000,000 dollars.
C16_Witness ==
    \E t \in Threads :
        /\ ret[t] # NoResult
        /\ ret[t].total_requests = 1
        /\ ret[t].estimated_cost = 225000
        /\ total_requests = 1
        /\ total_input_tokens = 1000
        /\ Failures # {}

\* How many times x occurs in the sequence s.
Count(s, x) == Cardinality({i \in DOMAIN s : s[i] = x})

(* C17. Window pruning boundary: a prune made at time now keeps every event *)
(* with now - timestamp < 60, as often as it was there, and no other event, *)
(* in the request window and in the token window; and the call waits for    *)
(* the token budget exactly when the tokens of the events younger than 60 s *)
(* reach nine tenths of tpm_limit.                                          *)
C17_PruneBoundary ==
    [][\A t \in Threads :
         (pc[t] \in {"idle", "rpm_sleep"} /\ pc'[t] # pc[t]
            /\ pc'[t] \in {"rpm_sleep", "tpm_sleep", "trs_append"}) =>
            /\ \A i \in DOMAIN call_times' :
                  Count(call_times, call_times'[i]) > 0
            /\ \A i \in DOMAIN call_times :
                  Count(call_times', call_times[i]) =
                     IF clock - call_times[i] < 60
                     THEN Count(call_times, call_times[i]) ELSE 0
            /\ pc'[t] # "rpm_sleep" =>
                  /\ \A i \in DOMAIN token_times' :
                        Count(token_times, token_times'[i]) > 0
                  /\ \A i \in DOMAIN token_times :
                        Count(token_times', token_times[i]) =
                           IF clock - token_times[i][1] < 60
                           THEN Count(token_times, token_times[i]) ELSE 0
                  /\ pc'[t] = "tpm_sleep" <=>
                        SumTokens(token_times') * 10 >= tpm_limit * 9]_vars

\* A prune has just kept a request event and a token event 59 s old and
\* removed older request events.
C17_Witness ==
    \E t \in Threads :
        /\ pc[t] = "tpm_sleep"
        /\ now[t] = clock
        /\ call_times # <<>>
        /\ clock - call_times[1] = 59
        /\ Len(call_times) < admits
        /\ token_times # <<>>
        /\ clock - token_times[1][1] = 59

(* C18. Persistence failure is non-fatal: when a snapshot write has failed, *)
(* no track_usage call has ended in an exception, and the totals, the       *)
(* token window and the per-component counters are those of the calls       *)
(* made, as they are when every write succeeds.                             *)
C18_FailureHarmless ==
    save_calls > writes =>
        /\ \A t \in Threads : pc[t] \in {"idle", "tu_store"}
        /\ total_requests = LogCount(Successes)
        /\ total_tokens = LogTokens(Successes)
        /\ total_input_tokens = LogSum(Successes, "input_tokens")
        /\ total_output_tokens = LogSum(Successes, "output_tokens")
        /\ Len(token_times) = LogCount(Successes)
        /\ call_times = <<>>
        /\ \A c \in Registry :
              /\ Usage[c].calls = LogCount({a \in Successes : a.component = c})
              /\ Usage[c].errors = LogCount({a \in Failures : a.component = c})

\* Both snapshot writes have failed, that of no request and that of ten, and
\* the ten requests are counted.
C18_Witness ==
    /\ save_calls = 2
    /\ writes = 0
    /\ persistence_file = <<>>
    /\ total_requests = SaveEvery
    /\ AllIdle

(* C19. Snapshots overwrite: a successful snapshot write leaves in the file *)
(* exactly one document, that of the ledger as the writing call left it;    *)
(* a failed one leaves the file as it was or without a document.            *)
C19_Overwrite ==
    [][save_calls' # save_calls =>
         LET last_alone ==
                /\ Len(persistence_file') = 1
                /\ persistence_file'[1].timestamp = clock
                /\ persistence_file'[1].stats.total_requests = total_requests'
                /\ persistence_file'[1].stats.total_tokens = total_tokens'
                /\ persistence_file'[1].stats.component_breakdown =
                      heap'[component_usage']
         IN  /\ writes' # writes => last_alone
             /\ \/ last_alone
                \/ persistence_file' = persistence_file
                \/ persistence_file' = <<>>]_vars

\* Two snapshots have been written, and the file holds the second alone.
C19_Witness ==
    /\ writes = 2
    /\ save_calls = 2
    /\ Len(persistence_file) = 1
    /\ persistence_file[1].stats.component_breakdown["optimizer"].errors = 1
    /\ persistence_file[1].stats.component_breakdown["collector"].errors = 1

\* The order of the positions of a track_request_start call.
Rank(p) ==
    CASE p = "rpm_sleep"  -> 1
      [] p = "tpm_sleep"  -> 2
      [] p = "trs_append" -> 3
      [] OTHER            -> 0

----------------------------------------------------------------------------
(* C21. Bounded windows: whenever a ledger operation returns               *)
(* (track_request_start, track_usage or get_usage_stats), every event the  *)
(* two windows hold is younger than 60 seconds.                            *)
C21_BoundedWindows ==
    [][(admits' # admits \/ log' # log \/ stats_calls' # stats_calls) =>
         /\ \A i \in DOMAIN call_times' : clock' - call_times'[i] < 60
         /\ \A i \in DOMAIN token_times' : clock' - token_times'[i][1] < 60]_vars

----------------------------------------------------------------------------
(* C22. Events are removed only by pruning: no step of the ledger removes  *)
(* a request event or a token event younger than 60 seconds, and a failed  *)
(* track_usage leaves both windows as they were, so the event of the       *)
(* admission before it stays in the request window.                        *)
C22_RemovedOnlyByPruning ==
    [][/\ \A i \in DOMAIN call_times :
             clock - call_times[i] < 60 =>
                Count(call_times', call_times[i]) >= Count(call_times, call_times[i])
       /\ \A i \in DOMAIN token_times :
             clock - token_times[i][1] < 60 =>
                Count(token_times', token_times[i]) >= Count(token_times, token_times[i])
       /\ \A a \in CallInputs :
             (Recorded(a) /\ ~a.success) =>
                call_times' = call_times /\ token_times' = token_times]_vars

\* An admission was followed by a failed record and by a second admission
\* that pruned, and the request window holds the events of both admissions.
C22_Witness ==
    /\ admits = 2
    /\ Failures # {}
    /\ Len(call_times) = 2
    /\ AllIdle

----------------------------------------------------------------------------
(* C24. The reads of the ad store are stateless: find_similar_ads,         *)
(* get_top_performers and analyze_patterns leave self.ads as it was, and   *)
(* every find_similar_ads call returns, without raising, the result it     *)
(* gives on the ads as store_ad wrote them.                                *)
C24_StatelessReads ==
    [][read_calls' # read_calls =>
         /\ ads' = ads
         /\ found'.call = read_calls' =>
               /\ found'.outcome = "ok"
               /\ found'.results =
                     FindSimilarAds(stored, found'.query,
                                    found'.min_performance,
                                    found'.limit).results]_vars

----------------------------------------------------------------------------
(* C25. Snapshot writes on transitions only: a track_usage call makes a    *)
(* snapshot write exactly when it changes total_requests to a multiple of  *)
(* 10, a call that leaves total_requests as it was makes none, and so the  *)
(* writes made number total_requests divided by 10, rounded down.          *)
C25_WritesOnTransitions ==
    [][(\E a \in BagToSet(log') : Recorded(a)) =>
          /\ save_calls' = save_calls + 1 <=>
                (total_requests' # total_requests /\ total_requests' % 10 = 0)
          /\ save_calls' = total_requests' \div 10]_vars

----------------------------------------------------------------------------
(* C26. Request-budget wait: a track_request_start call that finds fewer   *)
(* than rpm_limit request events younger than 60 s does not wait for the   *)
(* request budget; one that finds rpm_limit or more waits                  *)
(* 60 - (now - timestamp of the oldest of them) + 1 seconds, which is not  *)
(* negative; and when the wait is over the window is pruned again and the  *)
(* event that was the oldest is 60 s old or more and gone.                 *)
C26_RequestWait ==
    [][\A t \in Threads :
         /\ (pc[t] = "idle" /\ pc'[t] \in {"rpm_sleep", "tpm_sleep", "trs_append"}) =>
               LET live   == Live(call_times, clock)
                   oldest == CHOOSE x \in {call_times[i] : i \in live} :
                                \A i \in live : x <= call_times[i]
               IN  IF Cardinality(live) < rpm_limit
                   THEN pc'[t] # "rpm_sleep"
                   ELSE /\ pc'[t] = "rpm_sleep"
                        /\ wake_at'[t] - clock = 60 - (clock - oldest) + 1
                        /\ wake_at'[t] - clock >= 0
         /\ (pc[t] = "rpm_sleep" /\ pc'[t] # "rpm_sleep") =>
               /\ clock' - entered[t].oldest >= 60
               /\ \A i \in DOMAIN call_times' : clock' - call_times'[i] < 60
               /\ Len(call_times') < Len(call_times)]_vars

\* A call met a full window whose events were of different seconds, waited,
\* and its second prune took the oldest events and kept younger ones.
C26_Witness ==
    \E t \in Threads :
        /\ pc[t] = "trs_append"
        /\ entered[t] # NoEntry
        /\ entered[t].oldest < entered[t].newest
        /\ clock - entered[t].oldest >= 61
        /\ call_times # <<>>

----------------------------------------------------------------------------
(* C27. Soft token check: a track_request_start call sums the token events *)
(* younger than 60 s once, at its entry or when its wait for the request   *)
(* budget is over; if the sum is nine tenths of tpm_limit or more it waits *)
(* 60 - (age of the oldest of them) + 1 seconds and is then admitted with  *)
(* no second look at the window, and if the sum is less it does not wait   *)
(* for the token budget.                                                   *)
C27_SoftTokenCheck ==
    [][\A t \in Threads :
         /\ (\/ pc[t] = "idle" /\ pc'[t] \in {"tpm_sleep", "trs_append"}
             \/ pc[t] = "rpm_sleep" /\ pc'[t] # "rpm_sleep") =>
               LET live == SelectSeq(token_times, LAMBDA e : clock - e[1] < 60)
                   sum  == SumTokens(live)
               IN  IF 10 * sum >= 9 * tpm_limit
                   THEN /\ pc'[t] = "tpm_sleep"
                        /\ \E i \in DOMAIN live :
                              /\ \A j \in DOMAIN live : live[i][1] <= live[j][1]
                              /\ wake_at'[t] - clock = 60 - (clock - live[i][1]) + 1
                   ELSE pc'[t] = "trs_append"
         /\ (pc[t] = "tpm_sleep" /\ pc'[t] # "tpm_sleep") =>
               /\ pc'[t] = "trs_append"
               /\ clock' >= wake_at[t]
               /\ token_times' = token_times
               /\ call_times' = call_times]_vars

\* A call has waited for the token budget and is about to return while the
\* token events younger than 60 s still sum to nine tenths of tpm_limit.
C27_Witness ==
    \E t \in Threads :
        /\ pc[t] = "trs_append"
        /\ now[t] < wake_at[t]
        /\ wake_at[t] <= clock
        /\ 10 * SumTokens(SelectSeq(token_times, LAMBDA e : clock - e[1] < 60))
              >= 9 * tpm_limit

----------------------------------------------------------------------------
(* C28. An admission appends exactly one request event and changes nothing *)
(* else: the step that ends track_request_start appends one event stamped  *)
(* with the time of that step, not before the end of the call's waits; no  *)
(* other step of the call adds a request event; and no step of the call    *)
(* changes total_requests, the token totals or the per-component counters, *)
(* or adds or alters a token event.                                        *)
C28_AdmitAppendsOne ==
    [][\A t \in Threads :
         /\ (pc[t] = "trs_append" /\ pc'[t] = "idle") =>
               /\ call_times' = call_times \o <<clock'>>
               /\ clock' >= wake_at[t]
               /\ clock' >= now[t]
         /\ (pc'[t] # pc[t] /\ pc'[t] \in {"rpm_sleep", "tpm_sleep", "trs_append"}) =>
               \A x \in WordSet(call_times') :
                  Count(call_times', x) <= Count(call_times, x)
         /\ (/\ pc'[t] # pc[t]
             /\ {pc[t], pc'[t]} \cap {"rpm_sleep", "tpm_sleep", "trs_append"} # {}) =>
               /\ total_requests' = total_requests
               /\ total_tokens' = total_tokens
               /\ total_input_tokens' = total_input_tokens
               /\ total_output_tokens' = total_output_tokens
               /\ heap' = heap
               /\ component_usage' = component_usage
               /\ \A e \in WordSet(token_times') :
                     Count(token_times', e) <= Count(token_times, e)]_vars

\* A call that waited for the token budget has returned: its event carries
\* the time after the wait, beside the totals of the record made before.
C28_Witness ==
    /\ admits >= 1
    /\ AllIdle
    /\ call_times # <<>>
    /\ call_times[Len(call_times)] > MaxEarly
    /\ total_requests >= 1

----------------------------------------------------------------------------
(* C29. Time ordering of the windows: in every state call_times and        *)
(* token_times are in non-decreasing order of timestamp, so that the first *)
(* element of call_times is its oldest event.                              *)
C29_TimeOrder ==
    /\ \A i, j \in DOMAIN call_times : i < j => call_times[i] <= call_times[j]
    /\ \A i, j \in DOMAIN token_times : i < j => token_times[i][1] <= token_times[j][1]
    /\ \A i \in DOMAIN call_times : OldestCall(call_times) <= call_times[i]

\* Both windows hold events of different seconds, appended by calls of
\* different threads in turn.
C29_Witness ==
    /\ Len(call_times) >= 2
    /\ call_times[1] < call_times[Len(call_times)]
    /\ Len(token_times) >= 2
    /\ token_times[1][1] < token_times[Len(token_times)][1]

----------------------------------------------------------------------------
(* C30. current_rpm is computed fresh: the current_rpm of every            *)
(* get_usage_stats result is the number of request events younger than 60  *)
(* seconds at the time of the call, whether or not the list still holds    *)
(* older ones; it is at most rpm_limit, and it is not a function of        *)
(* total_requests.                                                         *)
C30_CurrentRpmFresh ==
    [][\A t \in Threads :
         (stats_calls' # stats_calls /\ ret'[t] # ret[t]) =>
            /\ ret'[t].current_rpm =
                  Cardinality({i \in DOMAIN call_times : clock - call_times[i] < 60})
            /\ ret'[t].current_rpm <= rpm_limit]_vars

\* A report, made after one recorded request, read a list of fifteen events
\* that were all 60 seconds old and not yet pruned.
C30_Witness ==
    \E t \in Threads :
        /\ ret[t] # NoResult
        /\ ret[t].current_rpm = 0
        /\ ret[t].total_requests = 1
        /\ Len(call_times) = rpm_limit
        /\ clock = WindowSeconds

----------------------------------------------------------------------------
(* C31. No self-deadlock on snapshot: a thread inside track_usage holds    *)
(* the lock once and can finish the call whatever its arguments, also when *)
(* the call saves and get_usage_stats takes the lock a second time; and    *)
(* when no call is under way the lock is free, held to no depth, and every *)
(* thread can enter a ledger operation.                                    *)
C31_NoSelfDeadlock ==
    /\ \A t \in Threads :
          pc[t] = "tu_store" =>
             /\ usage_lock = [owner |-> t, depth |-> 1]
             /\ \A a \in CallInputs : ENABLED TU_Store(t, a)
    /\ AllIdle =>
          /\ usage_lock = [owner |-> 0, depth |-> 0]
          /\ \A t \in Threads :
                ENABLED TU_Enter(t) /\ ENABLED TRS_Enter(t) /\ ENABLED Stats(t)

\* A failed record has saved a snapshot, and after it the call of another
\* record, by the other thread, is under way.
C31_Witness ==
    /\ save_calls >= 1
    /\ writes >= 1
    /\ persistence_file # <<>>
    /\ \E t \in Threads : pc[t] = "tu_store"

----------------------------------------------------------------------------
----------------------------------------------------------------------------
(* C33. Caller protocol of the insight agent: when an execution of         *)
(* _generate_llm_insights returns, the ledger calls it has made are one    *)
(* track_request_start followed by one track_usage, with success True or   *)
(* with success False.                                                     *)
C33_CallerProtocol ==
    agent_pc = "returned" =>
        \/ agent_calls = <<"track_request_start", "track_usage(True)">>
        \/ agent_calls = <<"track_request_start", "track_usage(False)">>

----------------------------------------------------------------------------
(* C34. Bid adjustment clamp: whatever the ROAS, CTR and trend rules       *)
(* added up to, the factor _calculate_single_adjustment goes on with lies  *)
(* between -25% and +25%, and the call returns an adjustment only when the *)
(* factor's magnitude is at least 5%: with a smaller one it returns None.  *)
C34_BidClamp ==
    adjustment.called =>
        /\ ~Less(adjustment.factor, Exact(-25))
        /\ ~Less(Exact(25), adjustment.factor)
        /\ adjustment.returned => ~Less(Abs(adjustment.factor), Exact(5))
        /\ Less(Abs(adjustment.factor), Exact(5)) => ~adjustment.returned

\* The three rules all raise the bid, 35% together, and 25% are returned.
C34_Witness ==
    /\ adjustment.called
    /\ adjustment.returned
    /\ adjustment.rules.n = 35
    /\ adjustment.factor = Exact(25)
    /\ 10 * campaign.roas > target_roas * 13
    /\ campaign.trend > 20

----------------------------------------------------------------------------
(* C35. Alert de-duplication: in an AlertManager with a Slack webhook, over *)
(* any sequence of check_metrics calls every alert key (alert_type,        *)
(* metric_name, current_value) has been posted to Slack at most once, and  *)
(* alerts_sent holds at most 100 keys.                                     *)
C35_SentAtMostOnce ==
    slack_webhook = "url" =>
        /\ \A key \in BagToSet(posts) : CopiesIn(key, posts) <= 1
        /\ Len(alerts_sent) <= SentLimit

====
